---- MODULE Spec2Model ----
(***************************************************************************)
(* A model of the Synacor virtual machine workbench (src/src/main.rs):     *)
(* the Vm structure and its methods, the run_to_input driver, the ctrl-c   *)
(* handler and the REPL of main.                                           *)
(*                                                                         *)
(* Data representation.                                                    *)
(*  - u16 words are naturals below Word16; Option<u16>::None is None.      *)
(*  - rom (a slice of u16) is the record [len, w]: its length and the      *)
(*    function from the addresses that hold a non-zero word to that word.  *)
(*    The encoding is canonical, so equality of records is equality of     *)
(*    slices, and a flashed image of 32768 words stays small.              *)
(*  - memory (BTreeMap<u16,u16>) is a function on its key set.             *)
(*  - chars are their code points; input is stored reversed, as the code   *)
(*    stores it, and consumed from the end.                                *)
(*  - a panic makes the process abort: the operators return its message    *)
(*    in the field f, and the actions record it in fault.                  *)
(***************************************************************************)
EXTENDS Integers, Sequences, FiniteSets, TLC

VARIABLES
    checked,     \* the build traps integer overflow (debug profile) or wraps
    vm,          \* the working machine of main
    fault,       \* "" or the message of the panic that aborted the process
    pc,          \* position of the main thread
    flag,        \* the AtomicBool shared with the ctrl-c handler
    polled,      \* last value run_to_input loaded from flag
    step_no,     \* main: step_no
    saves,       \* main: saves, HashMap<Vm, usize>
    by_step,     \* main: by_step, HashMap<usize, Vm>
    first_seen,  \* main: first_seen of the current prompt
    s,           \* main: the line read at the prompt
    exit_code,   \* -1 while the process lives, else its exit code
    ncmd,        \* lines read so far
    nint,        \* interrupts delivered so far
    nops,        \* SpecVm: how many set, flash and input operations were applied
    last,        \* SpecVm: the operation applied last
    hist,        \* history of the session: what each text command did
    cont,        \* where run_to_input returns to
    dis,         \* the locals of disassemble: [ip, ans, done]
    sweep        \* the locals of the search command: [v_ref, this_v, i, found]

vars == <<checked, vm, fault, pc, flag, polled, step_no, saves, by_step,
          first_seen, s, exit_code, ncmd, nint, nops, last, hist, cont, dis, sweep>>

(***************************************************************************)
(* Words                                                                   *)
(***************************************************************************)
Word16 == 65536
Modulus == 32768
RegBase == 32768
RegEnd == 32776
NumOps == 22
None == -1

Min2(a, b) == IF a < b THEN a ELSE b
Max2(a, b) == IF a > b THEN a ELSE b

RECURSIVE BitAnd(_, _)
BitAnd(a, b) ==
    IF a = 0 \/ b = 0 THEN 0
    ELSE (IF a % 2 = 1 /\ b % 2 = 1 THEN 1 ELSE 0) + 2 * BitAnd(a \div 2, b \div 2)

RECURSIVE BitOr(_, _)
BitOr(a, b) ==
    IF a = 0 THEN b
    ELSE IF b = 0 THEN a
    ELSE (IF a % 2 = 1 \/ b % 2 = 1 THEN 1 ELSE 0) + 2 * BitOr(a \div 2, b \div 2)

BitNot(b) == (Word16 - 1) - b

Reverse(q) == [i \in 1..Len(q) |-> q[Len(q) + 1 - i]]

(***************************************************************************)
(* Op and Vm                                                               *)
(***************************************************************************)
Halt == 0
OpSet == 1
Push == 2
Pop == 3
OpEq == 4
Gt == 5
Jmp == 6
Jt == 7
Jf == 8
Add == 9
Mult == 10
Mod == 11
OpAnd == 12
OpOr == 13
OpNot == 14
Rmem == 15
Wmem == 16
Call == 17
Ret == 18
Out == 19
In == 20
Nop == 21

\* u16 -> Op (TryFromPrimitive): None for a word that names no opcode
TryIntoOp(w) == IF w >= 0 /\ w < NumOps THEN w ELSE None

MkRom(program) ==
    [len |-> Len(program),
     w   |-> [a \in {i - 1 : i \in {j \in 1..Len(program) : program[j] # 0}}
                |-> program[a + 1]]]

New(program) ==
    [rom |-> MkRom(program),
     memory |-> [x \in RegBase..(RegEnd - 1) |-> 0],
     stack |-> <<>>,
     ip |-> 0,
     running |-> TRUE,
     input |-> <<>>,
     output |-> <<>>,
     live_output |-> TRUE]

GetRom(v, addr) ==
    IF addr < v.rom.len
    THEN (IF addr \in DOMAIN v.rom.w THEN v.rom.w[addr] ELSE 0)
    ELSE None

TryGet(v, address) ==
    IF address \in DOMAIN v.memory THEN v.memory[address] ELSE GetRom(v, address)

Remove(m, k) == [x \in DOMAIN m \ {k} |-> m[x]]
Insert(m, k, val) == [x \in DOMAIN m \cup {k} |-> IF x = k THEN val ELSE m[x]]

SetNoCanon(v, address, value) ==
    [v EXCEPT !.memory = Insert(@, address, value)]

Set(v, address, value) ==
    IF GetRom(v, address) = value
    THEN [v EXCEPT !.memory = Remove(@, address)]
    ELSE [v EXCEPT !.memory = Insert(@, address, value)]

\* results of the fallible operations: the machine, a value, a panic message
Ok(v, val) == [v |-> v, val |-> val, f |-> ""]
Panic(v, msg) == [v |-> v, val |-> 0, f |-> msg]

Get(v, address) ==
    IF TryGet(v, address) = None
    THEN Panic(v, "Can't get memory")
    ELSE Ok(v, TryGet(v, address))

\* x + y on u16: traps in a checked build, wraps otherwise
AddU16(x, y) ==
    IF x + y < Word16 THEN x + y
    ELSE IF checked THEN None ELSE (x + y) % Word16

FetchSet(v) ==
    LET i == Get(v, v.ip) IN
    IF i.f # "" THEN i
    ELSE IF AddU16(v.ip, 1) = None THEN Panic(v, "attempt to add with overflow")
    ELSE Ok([v EXCEPT !.ip = AddU16(v.ip, 1)], i.val)

FetchRead(v) ==
    LET i == FetchSet(v) IN
    IF i.f # "" THEN i
    ELSE IF i.val >= RegBase THEN Get(i.v, i.val)
    ELSE i

\* u16::wrapping_mul, by bytes of x so that no product leaves 32 bits
Byte == 256
\* u16::saturating_mul in place of wrapping_mul
MulSaturating(x, y) ==
    IF x # 0 /\ y > (Word16 - 1) \div x THEN Word16 - 1 ELSE x * y

MulU16(x, y) == ((x % Byte) * y + (((x \div Byte) * y) % Byte) * Byte) % Word16

\* the closures handed to binop; None is a panic
BinF(op, b, c) ==
    CASE op = OpEq -> (IF b = c THEN 1 ELSE 0)
      [] op = Gt -> (IF b > c THEN 1 ELSE 0)
      [] op = Add -> AddU16(b, c)
      [] op = Mult -> MulU16(b, c)
      [] op = Mod -> (IF c = 0 THEN None ELSE b % c)
      [] op = OpAnd -> BitAnd(b, c)
      [] op = OpOr -> BitOr(b, c)

Binop(v, op) ==
    LET a == FetchSet(v) IN
    IF a.f # "" THEN a ELSE
    LET b == FetchRead(a.v) IN
    IF b.f # "" THEN b ELSE
    LET c == FetchRead(b.v) IN
    IF c.f # "" THEN c ELSE
    IF BinF(op, b.val, c.val) = None
    THEN Panic(v, IF op = Mod THEN "remainder with a divisor of zero"
                  ELSE "attempt to add with overflow")
    ELSE Ok(Set(c.v, a.val, BinF(op, b.val, c.val) % Modulus), 0)

ArgCount(o) ==
    CASE o \in {Halt, Ret, Nop} -> 0
      [] o \in {Push, Pop, Call, Out, In} -> 1
      [] o \in {OpSet, Jt, Jf, OpNot, Rmem, Wmem} -> 2
      [] o \in {OpEq, Gt, Jmp, Add, Mult, Mod, OpAnd, OpOr} -> 3

CR == 13
SurrogateLo == 55296
SurrogateHi == 57343

\* s.chars().filter(|x| x != &'\r').rev().collect()
\* the chars of the line in the order read, not reversed
ToInputInOrder(line) == SelectSeq(line, LAMBDA x : x # CR)

ToInput(line) == Reverse(SelectSeq(line, LAMBDA x : x # CR))

\* destination then source operand: Set, Not, Rmem
DstSrc(v) ==
    LET a == FetchSet(v) IN
    IF a.f # "" THEN a ELSE
    LET b == FetchRead(a.v) IN
    IF b.f # "" THEN b ELSE [v |-> b.v, val |-> b.val, f |-> "", a |-> a.val]

\* two source operands: Jt, Jf, Wmem
SrcSrc(v) ==
    LET a == FetchRead(v) IN
    IF a.f # "" THEN a ELSE
    LET b == FetchRead(a.v) IN
    IF b.f # "" THEN b ELSE [v |-> b.v, val |-> b.val, f |-> "", a |-> a.val]

StepSet(v) ==
    LET r == DstSrc(v) IN
    IF r.f # "" THEN r ELSE Ok(Set(r.v, r.a, r.val), 0)

StepPush(v) ==
    LET a == FetchRead(v) IN
    IF a.f # "" THEN a ELSE Ok([a.v EXCEPT !.stack = Append(@, a.val)], 0)

StepPopHalts(v) ==
    LET a == FetchSet(v) IN
    IF a.f # "" THEN a
    ELSE IF a.v.stack = <<>> THEN Ok([a.v EXCEPT !.running = FALSE], 0)
    ELSE Ok(Set([a.v EXCEPT !.stack = SubSeq(@, 1, Len(@) - 1)],
                a.val, a.v.stack[Len(a.v.stack)]), 0)

StepPop(v) ==
    LET a == FetchSet(v) IN
    IF a.f # "" THEN a
    ELSE IF a.v.stack = <<>> THEN Panic(v, "Empty stack!")
    ELSE Ok(Set([a.v EXCEPT !.stack = SubSeq(@, 1, Len(@) - 1)],
                a.val, a.v.stack[Len(a.v.stack)]), 0)

StepJmp(v) ==
    LET a == FetchRead(v) IN
    IF a.f # "" THEN a ELSE Ok([a.v EXCEPT !.ip = a.val], 0)

StepJt(v) ==
    LET r == SrcSrc(v) IN
    IF r.f # "" THEN r
    ELSE IF r.a # 0 THEN Ok([r.v EXCEPT !.ip = r.val], 0) ELSE Ok(r.v, 0)

StepJf(v) ==
    LET r == SrcSrc(v) IN
    IF r.f # "" THEN r
    ELSE IF r.a = 0 THEN Ok([r.v EXCEPT !.ip = r.val], 0) ELSE Ok(r.v, 0)

StepNot(v) ==
    LET r == DstSrc(v) IN
    IF r.f # "" THEN r ELSE Ok(Set(r.v, r.a, BitNot(r.val) % Modulus), 0)

StepRmem(v) ==
    LET r == DstSrc(v) IN
    IF r.f # "" THEN r ELSE
    LET b == Get(r.v, r.val) IN
    IF b.f # "" THEN b ELSE Ok(Set(r.v, r.a, b.val), 0)

StepWmem(v) ==
    LET r == SrcSrc(v) IN
    IF r.f # "" THEN r ELSE Ok(Set(r.v, r.a, r.val), 0)

StepCall(v) ==
    LET a == FetchRead(v) IN
    IF a.f # "" THEN a
    ELSE Ok([a.v EXCEPT !.stack = Append(@, a.v.ip), !.ip = a.val], 0)

StepRet(v) ==
    IF v.stack = <<>> THEN Ok([v EXCEPT !.running = FALSE], 0)
    ELSE Ok([v EXCEPT !.ip = v.stack[Len(v.stack)],
                      !.stack = SubSeq(@, 1, Len(@) - 1)], 0)

StepOut(v) ==
    LET ch == FetchRead(v) IN
    IF ch.f # "" THEN ch
    ELSE IF ch.val >= SurrogateLo /\ ch.val <= SurrogateHi THEN Panic(v, "Invalid char")
    ELSE Ok([ch.v EXCEPT !.output = Append(@, ch.val)], 0)

\* line: what read_line returns if the input queue is empty
StepIn(v, line) ==
    LET v1 == IF v.input = <<>> THEN [v EXCEPT !.input = ToInput(line)] ELSE v
        a == FetchSet(v1)
    IN
    IF a.f # "" THEN a
    ELSE IF a.v.input = <<>> THEN Panic(v, "called Option::unwrap() on a None value")
    ELSE Ok(Set([a.v EXCEPT !.input = SubSeq(@, 1, Len(@) - 1)],
                a.val, a.v.input[Len(a.v.input)] % Word16), 0)

Exec(v, op, line) ==
    CASE op = Halt -> Ok([v EXCEPT !.running = FALSE], 0)
      [] op = OpSet -> StepSet(v)
      [] op = Push -> StepPush(v)
      [] op = Pop -> StepPop(v)
      [] op \in {OpEq, Gt, Add, Mult, Mod, OpAnd, OpOr} -> Binop(v, op)
      [] op = Jmp -> StepJmp(v)
      [] op = Jt -> StepJt(v)
      [] op = Jf -> StepJf(v)
      [] op = OpNot -> StepNot(v)
      [] op = Rmem -> StepRmem(v)
      [] op = Wmem -> StepWmem(v)
      [] op = Call -> StepCall(v)
      [] op = Ret -> StepRet(v)
      [] op = Out -> StepOut(v)
      [] op = In -> StepIn(v, line)
      [] op = Nop -> Ok(v, 0)

Step(v, line) ==
    LET o == FetchRead(v) IN
    IF o.f # "" THEN o
    ELSE IF TryIntoOp(o.val) = None THEN Panic(v, "Unknown op code")
    ELSE Exec(o.v, TryIntoOp(o.val), line)

\* a peek_op that would decode as step does, through fetch_read
PeekOpSubstituting(v) ==
    IF FetchRead(v).f # "" THEN None ELSE TryIntoOp(FetchRead(v).val)

\* peek_op: None stands for the panic of its unwrap
PeekOp(v) ==
    IF TryGet(v, v.ip) = None THEN None ELSE TryIntoOp(TryGet(v, v.ip))

SetMax(S) == CHOOSE x \in S : \A y \in S : y <= x

FlashKeepOverlay(v) ==
    Ok([v EXCEPT !.rom = [len |-> Modulus,
                          w |-> [a \in {i \in (DOMAIN v.memory \cup DOMAIN v.rom.w) :
                                          i < Modulus /\ TryGet(v, i) # 0}
                                   |-> TryGet(v, a)]]], 0)

\* new_rom[i] = try_get(i).unwrap_or(0) for i < mem_max; only an address of
\* the overlay or of the old image's support can hold a non-zero word
FlashRom(v) ==
    LET maxk == IF DOMAIN v.memory = {} THEN 0 ELSE SetMax(DOMAIN v.memory)
        next == AddU16(maxk, 1)
        mem_max == Min2(Modulus, Max2(next, v.rom.len))
        support == {i \in (DOMAIN v.memory \cup DOMAIN v.rom.w) :
                      i < mem_max /\ TryGet(v, i) # 0}
    IN
    IF next = None THEN Panic(v, "attempt to add with overflow")
    ELSE Ok([v EXCEPT !.rom = [len |-> mem_max,
                               w |-> [a \in support |-> TryGet(v, a)]],
                      !.memory = [x \in {k \in DOMAIN v.memory : k >= RegBase}
                                    |-> v.memory[x]]], 0)

TakeOutput(v) == [v EXCEPT !.output = <<>>]

(***************************************************************************)
(* Text: a String is the sequence of the code points of its chars          *)
(***************************************************************************)
Ord ==
    "a" :> 97 @@ "b" :> 98 @@ "c" :> 99 @@ "d" :> 100 @@ "e" :> 101 @@ "f" :> 102 @@
    "g" :> 103 @@ "h" :> 104 @@ "i" :> 105 @@ "j" :> 106 @@ "k" :> 107 @@ "l" :> 108 @@
    "m" :> 109 @@ "n" :> 110 @@ "o" :> 111 @@ "p" :> 112 @@ "q" :> 113 @@ "r" :> 114 @@
    "s" :> 115 @@ "t" :> 116 @@ "u" :> 117 @@ "v" :> 118 @@ "w" :> 119 @@ "x" :> 120 @@
    "y" :> 121 @@ "z" :> 122 @@ "0" :> 48 @@ "1" :> 49 @@ "2" :> 50 @@ "3" :> 51 @@
    "4" :> 52 @@ "5" :> 53 @@ "6" :> 54 @@ "7" :> 55 @@ "8" :> 56 @@ "9" :> 57 @@
    " " :> 32 @@ "+" :> 43 @@ "X" :> 88 @@ "\n" :> 10 @@ "\r" :> 13 @@
    "M" :> 77 @@ "!" :> 33

Str(cs) == [i \in 1..Len(cs) |-> Ord[cs[i]]]

(***************************************************************************)
(* The machine on its own: step, set and flash_rom applied in any order    *)
(* to the machines Vm::new builds from a few programs.                     *)
(***************************************************************************)
MaxSets == 1
MaxFlashes == 1
MaxFeeds == 1
MaxOut == 3
MaxStack == 3

Programs ==
    { <<In, 32768, Out, 32768, Halt>>,
      <<Wmem, 10, 5, Wmem, 10, 0, Wmem, 10, 5, Halt, 0>>,
      <<Pop, 32768, Halt>>,
      <<Nop, Ret>>,
      <<Push, 7, Pop, 32768, Call, 7, Halt, Ret>>,
      <<Rmem, 32769, 8, Add, 32768, 32769, 32769, Halt, 40000>>,
      <<Add, 32768, 32767, 1, Mult, 32769, 32767, 2,
        OpNot, 32770, 0, OpNot, 32771, 32767, Halt>>,
      <<OpEq, 32768, 5, 5, Gt, 32769, 7, 5, Mod, 32770, 7, 1,
        OpAnd, 32771, 6, 3, OpOr, 32772, 6, 3, Halt>>,
      <<Jt, 0, 8, Jf, 0, 7, Halt, Jmp, 6>>,
      <<Nop, Out, 72>>,
      <<OpSet, 40000, 5, Push, 40000, Halt>>,
      <<32768>>,
      <<Mod, 32768, 5, 0>> }

\* the (address, value) pairs of the debugger's set command that are tried
SetCmds == { <<2, 21>>, <<2, 0>>, <<32769, 40000>>, <<65535, 1>>, <<10, 5>> }

\* the lines stdin can deliver: "X\n", and the empty line of end-of-file
StdinLines == { Str(<<"X", "\n">>), <<>> }

Idle ==
    /\ pc = "api"
    /\ flag = TRUE /\ polled = TRUE /\ step_no = 0
    /\ saves = <<>> /\ by_step = <<>> /\ first_seen = 0
    /\ s = <<>> /\ exit_code = -1 /\ ncmd = 0 /\ nint = 0
    /\ hist = <<>> /\ cont = "" /\ dis = <<>> /\ sweep = <<>>

InitVm ==
    /\ checked \in BOOLEAN
    /\ vm \in {New(p) : p \in Programs}
    /\ fault = ""
    /\ nops = [set |-> 0, flash |-> 0, feed |-> 0]
    /\ last = "new"
    /\ Idle

rest == <<pc, flag, polled, step_no, saves, by_step, first_seen, s, exit_code,
          ncmd, nint, hist, cont, dis, sweep>>

Apply(r, what) ==
    /\ last' = what
    /\ IF r.f # ""
       THEN fault' = r.f /\ vm' = vm
       ELSE fault' = fault /\ vm' = r.v
    /\ UNCHANGED <<checked, rest>>

VmStep ==
    /\ pc = "api" /\ fault = "" /\ vm.running
    /\ Len(vm.output) < MaxOut /\ Len(vm.stack) < MaxStack
    /\ \E line \in StdinLines : Apply(Step(vm, line), "step")
    /\ UNCHANGED nops

VmSet ==
    /\ pc = "api" /\ fault = "" /\ nops.set < MaxSets
    /\ \E c \in SetCmds : Apply(Ok(Set(vm, c[1], c[2]), 0), "set")
    /\ nops' = [nops EXCEPT !.set = @ + 1]

VmFlash ==
    /\ pc = "api" /\ fault = "" /\ nops.flash < MaxFlashes
    /\ Apply(FlashRom(vm), "flash")
    /\ nops' = [nops EXCEPT !.flash = @ + 1]

VmFeed ==
    /\ pc = "api" /\ fault = "" /\ nops.feed < MaxFeeds
    /\ \E line \in StdinLines : Apply(Ok([vm EXCEPT !.input = ToInput(line)], 0), "feed")
    /\ nops' = [nops EXCEPT !.feed = @ + 1]

NextVm == VmStep \/ VmSet \/ VmFlash \/ VmFeed

SpecVm == InitVm /\ [][NextVm]_vars

(***************************************************************************)
(* Text of the command lines                                               *)
(***************************************************************************)
StartsWith(line, p) == Len(line) >= Len(p) /\ SubSeq(line, 1, Len(p)) = p

\* str::split(sep) for a one-char separator
RECURSIVE Split(_, _)
Split(line, sep) ==
    IF \A i \in 1..Len(line) : line[i] # sep THEN <<line>>
    ELSE LET i == CHOOSE j \in 1..Len(line) :
                      line[j] = sep /\ \A k \in 1..(j - 1) : line[k] # sep
         IN <<SubSeq(line, 1, i - 1)>> \o Split(SubSeq(line, i + 1, Len(line)), sep)

White == {Ord[" "], Ord["\n"], Ord["\r"], 9}

RECURSIVE Trim(_)
Trim(line) ==
    IF line = <<>> THEN line
    ELSE IF line[1] \in White THEN Trim(Tail(line))
    ELSE IF line[Len(line)] \in White THEN Trim(SubSeq(line, 1, Len(line) - 1))
    ELSE line

RECURSIVE DigitsVal(_)
DigitsVal(w) ==
    IF w = <<>> THEN 0
    ELSE 10 * DigitsVal(SubSeq(w, 1, Len(w) - 1)) + (w[Len(w)] - Ord["0"])

\* str::parse for an unsigned integer type of maximum limit; None is Err
Parse(w, limit) ==
    LET body == IF w # <<>> /\ w[1] = Ord["+"] THEN Tail(w) ELSE w IN
    IF body = <<>> \/ Len(body) > 6 THEN None
    ELSE IF \E i \in 1..Len(body) : body[i] < Ord["0"] \/ body[i] > Ord["9"] THEN None
    ELSE IF DigitsVal(body) > limit THEN None
    ELSE DigitsVal(body)

U16Max == 65535
\* the lines of this model hold no number beyond six digits
UsizeMax == 999999

(***************************************************************************)
(* main: the ctrl-c handler, run_to_input and the REPL.  The solve, search *)
(* and dissassemble commands are not part of this specification.           *)
(***************************************************************************)
MaxCmds == 3
MaxInts == 1

ReplPrograms ==
    { <<In, 32768, Out, 32768, Halt>>,
      <<Out, 72, In, 32768, Out, 32768, Jmp, 2>>,
      <<OpSet, 32768, 21, 32768>>,
      <<Nop, 22>> }

Lines ==
    { Str(<<"X", "\n">>),
      Str(<<"d", "u", "m", "p", "\n">>),
      Str(<<"i", "n", "p", "u", "t", "\n">>),
      Str(<<"g", "e", "t", " ", "0", "\n">>),
      Str(<<"l", "o", "a", "d", " ", "0", "\n">>),
      Str(<<"l", "o", "a", "d", " ", "0">>),
      Str(<<"l", "o", "a", "d", " ", "7">>),
      Str(<<"s", "e", "t", " ", "3", "2", "7", "6", "8", " ", "6", "5">>),
      Str(<<"d", "i", "f", "f", " ", "0", " ", "0">>),
      Str(<<"d", "i", "f", "f", " ", "7", " ", "7", " ", "\n">>),
      Str(<<"q", "u", "i", "t">>) }

NoRun == [line |-> <<>>, live |-> FALSE]

Init ==
    /\ checked \in BOOLEAN
    /\ vm \in {New(p) : p \in ReplPrograms}
    /\ fault = ""
    /\ pc = "boot"
    /\ flag = TRUE /\ polled = TRUE
    /\ step_no = 0 /\ saves = <<>> /\ by_step = <<>> /\ first_seen = 0
    /\ s = <<>> /\ exit_code = -1 /\ ncmd = 0 /\ nint = 0
    /\ nops = [set |-> 0, flash |-> 0, feed |-> 0] /\ last = "new"
    /\ hist = [obs |-> <<>>, pend |-> NoRun, loaded |-> FALSE, cut |-> FALSE,
               runs |-> {}, intr |-> FALSE]
    /\ cont = "init" /\ dis = <<>> /\ sweep = <<>>

Alive == exit_code = -1 /\ fault = ""

\* the handler installed by ctrlc::set_handler
Interrupt ==
    /\ Alive /\ pc \notin {"api", "dis", "done", "aborted", "killed"}
    /\ nint < MaxInts
    /\ nint' = nint + 1
    /\ IF flag
       THEN flag' = FALSE /\ UNCHANGED <<pc, exit_code>>
       ELSE flag' = flag /\ exit_code' = 1 /\ pc' = "killed"
    /\ hist' = [hist EXCEPT !.intr = @ \/ flag]
    /\ UNCHANGED <<checked, vm, fault, polled, step_no, saves, by_step, first_seen,
                   s, ncmd, nops, last, cont, dis, sweep>>

\* the image is read and Vm::new builds the machine
Boot ==
    /\ Alive /\ pc = "boot"
    /\ pc' = "rti_enter"
    /\ UNCHANGED <<checked, vm, fault, flag, polled, step_no, saves, by_step,
                   first_seen, s, exit_code, ncmd, nint, nops, last, hist, cont, dis, sweep>>

(* run_to_input *)
SuspendsAtAnyIn(v) == PeekOp(v) = In

Suspends(v) == PeekOp(v) = In /\ v.input = <<>>

RtiEnter ==
    /\ Alive /\ pc = "rti_enter"
    /\ flag' = TRUE
    /\ pc' = "rti_loop"
    /\ UNCHANGED <<checked, vm, fault, polled, step_no, saves, by_step, first_seen,
                   s, exit_code, ncmd, nint, nops, last, hist, cont, dis, sweep>>

\* the outcome r of self.step() inside the loop
Stepped(r) ==
    IF r.f # ""
    THEN fault' = r.f /\ pc' = "aborted" /\ vm' = vm
    ELSE fault' = fault /\ pc' = "rti_loop" /\ vm' = r.v

\* the body of the while loop; the flag was read true
RtiBody ==
    IF PeekOp(vm) = None
    THEN fault' = "peek_op" /\ pc' = "aborted" /\ vm' = vm
    ELSE IF Suspends(vm)
    THEN fault' = fault /\ pc' = "rti_leave" /\ vm' = vm
    ELSE Stepped(Step(vm, <<>>))

\* one evaluation of the loop condition and, if it holds, one iteration:
\* the load of the flag is the only access to shared state in it
RtiLoop ==
    /\ Alive /\ pc = "rti_loop"
    /\ IF vm.running
       THEN /\ polled' = flag
            /\ IF flag THEN RtiBody
               ELSE fault' = fault /\ pc' = "rti_leave" /\ vm' = vm
       ELSE polled' = polled /\ fault' = fault /\ pc' = "rti_leave" /\ vm' = vm
    /\ UNCHANGED <<checked, flag, step_no, saves, by_step, first_seen,
                   s, exit_code, ncmd, nint, nops, last, hist, cont, dis, sweep>>

RtiLeave ==
    /\ Alive /\ pc = "rti_leave"
    /\ flag' = FALSE
    /\ pc' = "rti_ret"
    /\ hist' = [hist EXCEPT !.cut = vm.running /\ ~polled, !.intr = FALSE]
    /\ UNCHANGED <<checked, vm, fault, polled, step_no, saves, by_step, first_seen,
                   s, exit_code, ncmd, nint, nops, last, cont, dis, sweep>>

\* back in main: step_no += 1 after the run of a text line
RtiReturn ==
    /\ Alive /\ pc = "rti_ret"
    /\ step_no' = (IF cont = "cmd" THEN step_no + 1 ELSE step_no)
    /\ pc' = "top"
    /\ s' = <<>>
    /\ UNCHANGED <<checked, vm, fault, flag, polled, saves, by_step, first_seen,
                   exit_code, ncmd, nint, nops, last, hist, cont, dis, sweep>>

(* the loop of main *)
EntryInsert(m, key, n) == Insert(m, key, n)

\* saves.entry(key).or_insert(n): the map afterwards
EntryOrInsert(m, key, n) == IF key \in DOMAIN m THEN m ELSE Insert(m, key, n)

Top ==
    /\ Alive /\ pc = "top"
    /\ saves' = EntryOrInsert(saves, vm, step_no)
    /\ first_seen' = saves'[vm]
    /\ by_step' = (IF first_seen' = step_no THEN Insert(by_step, step_no, vm)
                   ELSE by_step)
    /\ vm' = TakeOutput(vm)
    /\ pc' = "prompt"
    /\ hist' = [hist EXCEPT
                  !.obs = vm,
                  !.pend = NoRun,
                  !.runs = IF hist.pend.live
                           THEN @ \cup {[pre |-> hist.obs, line |-> hist.pend.line,
                                         post |-> vm, viaLoad |-> hist.loaded,
                                         cut |-> hist.cut, fs |-> first_seen',
                                         step |-> step_no]}
                           ELSE @,
                  !.loaded = IF hist.pend.live THEN FALSE ELSE @]
    /\ UNCHANGED <<checked, fault, flag, polled, step_no, s, exit_code, ncmd, nint,
                   nops, last, cont, dis, sweep>>

\* which arm of the if / else-if chain a line takes
Branch(line) ==
    IF line = Str(<<"q", "u", "i", "t">>) THEN "quit"
    ELSE IF StartsWith(line, Str(<<"d", "i", "f", "f", " ">>)) THEN "diff"
    ELSE IF StartsWith(line, Str(<<"l", "o", "a", "d", " ">>)) THEN "load"
    ELSE IF StartsWith(line, Str(<<"g", "e", "t", " ">>)) THEN "get"
    ELSE IF StartsWith(line, Str(<<"s", "e", "t", " ">>)) THEN "set"
    ELSE IF StartsWith(line, Str(<<"i", "n", "p", "u", "t">>)) THEN "input"
    ELSE IF StartsWith(line, Str(<<"s", "o", "l", "v", "e">>)) THEN "solve"
    ELSE IF StartsWith(line, Str(<<"d", "i", "s", "s", "a", "s", "s", "e", "m", "b", "l", "e">>)) THEN "dissassemble"
    ELSE IF StartsWith(line, Str(<<"d", "u", "m", "p">>)) THEN "dump"
    ELSE IF StartsWith(line, Str(<<"s", "e", "a", "r", "c", "h">>)) THEN "search"
    ELSE "text"

\* a line is read at the prompt and takes the arm named b; s holds it
\* while the arm runs the machine and is dropped at the end of the iteration
Read(line, b) ==
    /\ Alive /\ pc = "prompt" /\ ncmd < MaxCmds
    /\ Branch(line) = b
    /\ ncmd' = ncmd + 1

mainframe == <<checked, flag, polled, exit_code, nint, nops, last, dis, sweep>>

\* an arm that prints and changes nothing
Stay ==
    /\ pc' = "top"
    /\ s' = <<>>
    /\ hist' = [hist EXCEPT !.loaded = FALSE]
    /\ UNCHANGED <<vm, fault, step_no, saves, by_step, first_seen, cont, mainframe>>

Abort(msg) ==
    /\ pc' = "aborted" /\ fault' = msg
    /\ s' = <<>>
    /\ UNCHANGED <<vm, hist, step_no, saves, by_step, first_seen, cont, mainframe>>

\* the line is "quit": break, then print!("{}", vm.take_output()) and Ok(())
Quit(line) ==
    /\ Read(line, "quit")
    /\ vm' = TakeOutput(vm)
    /\ exit_code' = 0
    /\ pc' = "done"
    /\ s' = line
    /\ UNCHANGED <<checked, fault, flag, polled, step_no, saves, by_step,
                   first_seen, nint, nops, last, hist, cont, dis, sweep>>

CmdQuit == \E line \in Lines : Quit(line)

Diff(line) ==
    /\ Read(line, "diff")
    /\ LET ws == Split(line, Ord[" "]) IN
       IF Len(ws) < 3 THEN Abort("index out of bounds")
       ELSE IF Parse(ws[2], UsizeMax) = None \/ Parse(ws[3], UsizeMax) = None
       THEN Stay
       ELSE IF Parse(ws[2], UsizeMax) \notin DOMAIN by_step
       THEN Abort("First diff item")
       ELSE IF Parse(ws[3], UsizeMax) \notin DOMAIN by_step
       THEN Abort("Second diff item")
       ELSE Stay

CmdDiff == \E line \in Lines : Diff(line)

Load(line) ==
    /\ Read(line, "load")
    /\ LET x == Parse(Split(line, Ord[" "])[2], UsizeMax) IN
       IF x # None /\ x \in DOMAIN by_step
       THEN /\ vm' = by_step[x]
            /\ pc' = "top"
            /\ s' = <<>>
            /\ hist' = [hist EXCEPT !.loaded = TRUE]
            /\ UNCHANGED <<fault, step_no, saves, by_step, first_seen, cont,
                           mainframe>>
       ELSE Stay

CmdLoad == \E line \in Lines : Load(line)

CmdGet ==
    \E line \in Lines :
        /\ Read(line, "get")
        /\ IF Len(Split(Trim(line), Ord[" "])) < 2
           THEN Abort("index out of bounds")
           ELSE Stay

CmdSet ==
    \E line \in Lines :
        /\ Read(line, "set")
        /\ LET ws == Split(line, Ord[" "]) IN
           IF Len(ws) < 3 THEN Abort("index out of bounds")
           ELSE IF Parse(ws[2], U16Max) = None \/ Parse(ws[3], U16Max) = None
           THEN Stay
           ELSE /\ vm' = Set(vm, Parse(ws[2], U16Max), Parse(ws[3], U16Max))
                /\ pc' = "top"
                /\ s' = <<>>
                /\ hist' = [hist EXCEPT !.loaded = FALSE]
                /\ UNCHANGED <<fault, step_no, saves, by_step, first_seen, cont,
                               mainframe>>

CmdInput == \E line \in Lines : Read(line, "input") /\ Stay

CmdDump == \E line \in Lines : Read(line, "dump") /\ Stay

\* the final else: the line becomes the input of the machine
Text(line) ==
    /\ Read(line, "text")
    /\ vm' = [vm EXCEPT !.input = ToInput(line)]
    /\ s' = line
    /\ cont' = "cmd"
    /\ pc' = "rti_enter"
    /\ hist' = [hist EXCEPT !.pend = [line |-> line, live |-> TRUE]]
    /\ UNCHANGED <<fault, step_no, saves, by_step, first_seen, mainframe>>

CmdText == \E line \in Lines : Text(line)

Next ==
    \/ Interrupt \/ Boot
    \/ RtiEnter \/ RtiLoop \/ RtiLeave \/ RtiReturn
    \/ Top
    \/ CmdQuit \/ CmdDiff \/ CmdLoad \/ CmdGet \/ CmdSet \/ CmdInput \/ CmdDump
    \/ CmdText

Spec == Init /\ [][Next]_vars

(***************************************************************************)
(* main: the REPL when the lines read are quit commands (SpecQuit)         *)
(***************************************************************************)
\* "quit" as read_line returns it: with its newline, or ended by end of file
QuitNl == Str(<<"q", "u", "i", "t", "\n">>)

QuitLines == { QuitNl, Str(<<"q", "u", "i", "t">>) }

CmdQuitLine == \E line \in QuitLines : Quit(line) \/ Text(line)

NextQuit ==
    \/ Interrupt \/ Boot
    \/ RtiEnter \/ RtiLoop \/ RtiLeave \/ RtiReturn
    \/ Top
    \/ CmdQuitLine

SpecQuit == Init /\ [][NextQuit]_vars

(***************************************************************************)
(* main: the search command, the sweep over the values of the last         *)
(* register (SpecSweep).  The REPL is the one of Spec; the lines read are  *)
(* search commands.                                                        *)
(***************************************************************************)
\* the sweep of the model ends before SweepEnd, the one of the code before
\* 32768
SweepEnd == 4

Miscalibration ==
    Str(<<"M", "i", "s", "c", "a", "l", "i", "b", "r", "a", "t", "i", "o", "n", " ",
          "d", "e", "t", "e", "c", "t", "e", "d", "!">>)

Teleporter ==
    Str(<<"u", "s", "e", " ", "t", "e", "l", "e", "p", "o", "r", "t", "e", "r", "\n">>)

\* str::contains
Contains(hay, needle) ==
    \E k \in 0..(Len(hay) - Len(needle)) :
        SubSeq(hay, k + 1, k + Len(needle)) = needle

\* OUT of each char of the text, one after the other
RECURSIVE Outs(_)
Outs(text) == IF text = <<>> THEN <<>> ELSE <<Out, Head(text)>> \o Outs(Tail(text))

\* the first reads a char and prints the text if the last register holds 1;
\* the second reads a char and halts
SweepPrograms ==
    { <<In, 32768, OpEq, 32769, 32775, 1, Jf, 32769, 57>>
          \o Outs(Miscalibration) \o <<Halt>>,
      <<In, 32768, Halt>> }

SweepLines == { Str(<<"s", "e", "a", "r", "c", "h", "\n">>) }

InitSweep ==
    /\ checked \in BOOLEAN
    /\ vm \in {New(p) : p \in SweepPrograms}
    /\ fault = ""
    /\ pc = "boot"
    /\ flag = TRUE /\ polled = TRUE
    /\ step_no = 0 /\ saves = <<>> /\ by_step = <<>> /\ first_seen = 0
    /\ s = <<>> /\ exit_code = -1 /\ ncmd = 0 /\ nint = 0
    /\ nops = [set |-> 0, flash |-> 0, feed |-> 0] /\ last = "new"
    /\ hist = [obs |-> <<>>, pend |-> NoRun, loaded |-> FALSE, cut |-> FALSE,
               runs |-> {}, intr |-> FALSE]
    /\ cont = "init" /\ dis = <<>> /\ sweep = <<>>

\* v_ref as the search command prepares it from the working machine v
Prepared(v) ==
    LET patched == Set(Set(Set([v EXCEPT !.live_output = FALSE],
                               6054, 21), 6055, 21), 6058, 0)
        flashed == FlashRom(patched)
    IN
    IF flashed.f # "" THEN flashed
    ELSE Ok(TakeOutput([flashed.v EXCEPT !.input = Reverse(Teleporter)]), 0)

\* the line starts with "search": v_ref is prepared and the for loop begins
Search(line) ==
    /\ Read(line, "search")
    /\ IF Prepared(vm).f # ""
       THEN /\ pc' = "aborted" /\ fault' = Prepared(vm).f
            /\ UNCHANGED sweep
       ELSE /\ pc' = "sw_next" /\ fault' = fault
            /\ sweep' = [v_ref |-> Prepared(vm).v, this_v |-> Prepared(vm).v,
                         i |-> 1, found |-> {}, cancelled |-> FALSE]
    /\ s' = line
    /\ UNCHANGED <<checked, vm, flag, polled, step_no, saves, by_step, first_seen,
                   exit_code, nint, nops, last, hist, cont, dis>>

CmdSearch == \E line \in SweepLines : Search(line)

\* the head of the for loop: the next candidate is cloned from v_ref, the
\* last register is set and run_to_input stores true; or the loop is over
SwNext ==
    /\ Alive /\ pc = "sw_next"
    /\ IF sweep.i < SweepEnd
       THEN /\ sweep' = [sweep EXCEPT !.this_v = Set(sweep.v_ref, 32775, sweep.i)]
            /\ flag' = TRUE
            /\ pc' = "sw_loop"
            /\ s' = s
       ELSE /\ pc' = "top"
            /\ s' = <<>>
            /\ UNCHANGED <<sweep, flag>>
    /\ UNCHANGED <<checked, vm, fault, polled, step_no, saves, by_step, first_seen,
                   exit_code, ncmd, nint, nops, last, hist, cont, dis>>

\* the outcome r of this_v.step() inside the loop of run_to_input
SwStepped(r) ==
    IF r.f # ""
    THEN fault' = r.f /\ pc' = "aborted" /\ sweep' = sweep
    ELSE fault' = fault /\ pc' = "sw_loop" /\ sweep' = [sweep EXCEPT !.this_v = r.v]

SwBody ==
    IF PeekOp(sweep.this_v) = None
    THEN fault' = "peek_op" /\ pc' = "aborted" /\ sweep' = sweep
    ELSE IF Suspends(sweep.this_v)
    THEN fault' = fault /\ pc' = "sw_leave" /\ sweep' = sweep
    ELSE SwStepped(Step(sweep.this_v, <<>>))

\* run_to_input on this_v: the loop condition and, if it holds, an iteration
SwLoop ==
    /\ Alive /\ pc = "sw_loop"
    /\ IF sweep.this_v.running
       THEN /\ polled' = flag
            /\ IF flag THEN SwBody
               ELSE fault' = fault /\ pc' = "sw_leave" /\ sweep' = sweep
       ELSE polled' = polled /\ fault' = fault /\ pc' = "sw_leave" /\ sweep' = sweep
    /\ UNCHANGED <<checked, vm, flag, step_no, saves, by_step, first_seen,
                   s, exit_code, ncmd, nint, nops, last, hist, cont, dis>>

\* run_to_input stores false and returns; the output is taken and the
\* candidate is reported if the text is not in it
SwLeave ==
    /\ Alive /\ pc = "sw_leave"
    /\ flag' = FALSE
    /\ sweep' = [sweep EXCEPT
                   !.this_v = TakeOutput(@),
                   !.found = IF Contains(sweep.this_v.output, Miscalibration)
                             THEN @ ELSE @ \cup {sweep.i},
                   !.i = @ + 1,
                   !.cancelled = @ \/ hist.intr]
    /\ hist' = [hist EXCEPT !.intr = FALSE]
    /\ pc' = "sw_next"
    /\ UNCHANGED <<checked, vm, fault, polled, step_no, saves, by_step, first_seen,
                   s, exit_code, ncmd, nint, nops, last, cont, dis>>

NextSweep ==
    \/ Interrupt \/ Boot
    \/ RtiEnter \/ RtiLoop \/ RtiLeave \/ RtiReturn
    \/ Top
    \/ CmdSearch \/ SwNext \/ SwLoop \/ SwLeave

SpecSweep == InitSweep /\ [][NextSweep]_vars

(***************************************************************************)
(* Properties of the machine (SpecVm)                                      *)
(***************************************************************************)
Minimal(v) ==
    \A A \in DOMAIN v.memory : A < v.rom.len => v.memory[A] # GetRom(v, A)

\* C1: every overlay entry at an address inside the ROM differs from the
\* ROM word at that address, after any steps, set commands and flashes.
C1_OverlayMinimal == Minimal(vm)

\* a write after a flash has put an entry below len(rom) into the overlay
C1_Witness ==
    /\ nops.flash = 1 /\ last = "step"
    /\ \E A \in DOMAIN vm.memory : A < vm.rom.len

\* addresses that stand for every case of get and set on the machine v
Probes(v) ==
    (DOMAIN v.memory \cup DOMAIN v.rom.w
       \cup {0, v.rom.len, Modulus - 1, RegBase, RegEnd - 1, RegEnd, Word16 - 1}
       \cup {a \in {v.rom.len - 1} : a >= 0})

\* n steps of a machine; stdin delivers line to an IN that finds no input
RECURSIVE StepN(_, _, _)
StepN(x, n, line) ==
    IF n = 0 \/ x.f # "" \/ ~x.v.running THEN x
    ELSE StepN(Step(x.v, line), n - 1, line)

Regs(v) == [r \in RegBase..(RegEnd - 1) |-> TryGet(v, r)]

\* what the flash equivalence compares after a run
Observed(x) ==
    [regs |-> Regs(x.v), stack |-> x.v.stack, ip |-> x.v.ip,
     running |-> x.v.running, input |-> x.v.input, output |-> x.v.output,
     fault |-> x.f]

MaxRun == 4

\* C5: flash_rom followed by no write leaves get(A) the same for every
\* address (value, or undefined), and the flashed machine runs as the
\* unflashed one does for any number of steps.
C5_FlashEquivalence ==
    (fault = "" /\ FlashRom(vm).f = "") =>
        /\ \A A \in Probes(vm) : TryGet(FlashRom(vm).v, A) = TryGet(vm, A)
        /\ \A n \in 0..MaxRun : \A line \in StdinLines :
              Observed(StepN(FlashRom(vm), n, line)) = Observed(StepN(Ok(vm, 0), n, line))

\* C6: set(A, get(A)) changes nothing of the machine, for every address A
\* at which get is defined.
C6_SetGetUnchanged ==
    fault = "" =>
        \A A \in Probes(vm) : TryGet(vm, A) # None => Set(vm, A, TryGet(vm, A)) = vm

\* the overlay holds an entry inside the ROM and lacks one, after a flash
C6_Witness ==
    /\ nops.flash = 1 /\ last # "flash"
    /\ \E A \in DOMAIN vm.memory : A < vm.rom.len
    /\ \E B \in 0..(vm.rom.len - 1) : B \notin DOMAIN vm.memory

Arith == {OpEq, Gt, Add, Mult, Mod, OpAnd, OpOr}

\* the operands of the arithmetic instruction the machine v is about to
\* execute; ok is FALSE if it is about to do something else
ArithAt(v) ==
    LET o == FetchRead(v)
        a == FetchSet(o.v)
        b == FetchRead(a.v)
        c == FetchRead(b.v)
        no == [ok |-> FALSE, op |-> 0, a |-> 0, b |-> 0, c |-> 0]
    IN
    IF o.f # "" \/ TryIntoOp(o.val) \notin (Arith \cup {OpNot}) THEN no
    ELSE IF a.f # "" \/ b.f # "" THEN no
    ELSE IF o.val = OpNot
    THEN [ok |-> TRUE, op |-> o.val, a |-> a.val, b |-> b.val, c |-> 0]
    ELSE IF c.f # "" THEN no
    ELSE [ok |-> TRUE, op |-> o.val, a |-> a.val, b |-> b.val, c |-> c.val]

\* C7: every value EQ, GT, ADD, MULT, MOD, AND, OR and NOT store is in
\* 0..32767 whatever 16-bit values the operands carry, and computing it
\* does not overflow the 16-bit cell.
C7_ArithInRange ==
    (fault = "" /\ vm.running /\ ArithAt(vm).ok) =>
        LET i == ArithAt(vm)
            r == Step(vm, <<>>)
        IN (i.op = Mod => i.c # 0) =>
              /\ i.op = Add => i.b + i.c < Word16
              /\ r.f = ""
              /\ TryGet(r.v, i.a) \in 0..(Modulus - 1)

\* the opcode step decodes on the machine v, None if the decoding panics
Decoded(v) ==
    IF FetchRead(v).f # "" THEN None ELSE TryIntoOp(FetchRead(v).val)

\* C9: POP with an empty stack is a fatal fault and applies nothing; RET
\* with an empty stack clears running without a fault and leaves stack,
\* overlay, input and output as they were.  Nothing runs after a fault.
C9_PopRetEmptyStack ==
    [][ /\ (last' = "step" /\ vm.stack = <<>> /\ Decoded(vm) = Pop)
            => (fault' # "" /\ vm' = vm)
        /\ (last' = "step" /\ vm.stack = <<>> /\ Decoded(vm) = Ret)
            => (/\ fault' = "" /\ ~vm'.running
                /\ vm'.stack = <<>> /\ vm'.memory = vm.memory
                /\ vm'.input = vm.input /\ vm'.output = vm.output)
        /\ fault # "" => vm' = vm ]_vars

\* POP has run on an empty stack
C9_Witness == fault = "Empty stack!" /\ vm.stack = <<>> /\ Decoded(vm) = Pop

(***************************************************************************)
(* disassemble                                                             *)
(***************************************************************************)
\* {:?} of an Op
OpName ==
    <<"Halt", "Set", "Push", "Pop", "Eq", "Gt", "Jmp", "Jt", "Jf", "Add", "Mult",
      "Mod", "And", "Or", "Not", "Rmem", "Wmem", "Call", "Ret", "Out", "In", "Nop">>

\* the c operand words after my_ip, formatted; f is the panic of get or of
\* the address computation
RECURSIVE DisArgs(_, _, _, _, _)
DisArgs(v, my_ip, i, c, ans) ==
    IF i >= c THEN [ans |-> ans, f |-> ""]
    ELSE IF AddU16(my_ip, 1) = None \/ AddU16(AddU16(my_ip, 1), i) = None
    THEN [ans |-> ans, f |-> "attempt to add with overflow"]
    ELSE LET w == Get(v, AddU16(AddU16(my_ip, 1), i)) IN
         IF w.f # "" THEN [ans |-> ans, f |-> w.f]
         ELSE DisArgs(v, my_ip, i + 1, c, ans \o " " \o ToString(w.val))

RECURSIVE DisLoop(_, _, _)
DisLoop(v, my_ip, ans) ==
    LET head == ans \o "@" \o ToString(my_ip) \o " "
        val == TryGet(v, my_ip)
    IN
    IF val = None THEN [ans |-> head, f |-> ""]
    ELSE IF TryIntoOp(val) # None
    THEN LET c == ArgCount(TryIntoOp(val))
             r == DisArgs(v, my_ip, 0, c, head \o OpName[TryIntoOp(val) + 1])
         IN IF r.f # "" THEN r
            ELSE IF AddU16(my_ip, 1 + c) = None
            THEN [ans |-> r.ans, f |-> "attempt to add with overflow"]
            ELSE DisLoop(v, AddU16(my_ip, 1 + c), r.ans \o "\n")
    ELSE IF AddU16(my_ip, 1) = None
    THEN [ans |-> head, f |-> "attempt to add with overflow"]
    ELSE DisLoop(v, AddU16(my_ip, 1), head \o ToString(val) \o "\n")

Disassemble(v) == DisLoop(v, 0, "")

\* the operand words step fetches after the opcode word
Fetched(op) ==
    CASE op \in {Halt, Ret, Nop} -> 0
      [] op \in {Push, Pop, Jmp, Call, Out, In} -> 1
      [] op \in {OpSet, Jt, Jf, OpNot, Rmem, Wmem} -> 2
      [] op \in Arith -> 3

\* operand words tried in the one-instruction programs
DisOperands == {0, 21, 32775}

RECURSIVE Tuples(_, _)
Tuples(S, n) ==
    IF n = 0 THEN {<<>>}
    ELSE {Append(q, x) : q \in Tuples(S, n - 1), x \in S}

\* one instruction with the operands step consumes, then HALT
OneInstruction ==
    UNION {{<<op>> \o args \o <<Halt>> : args \in Tuples(DisOperands, Fetched(op))} :
             op \in 0..(NumOps - 1)}

InitDis ==
    /\ checked \in BOOLEAN
    /\ vm \in {New(p) : p \in OneInstruction}
    /\ fault = ""
    /\ nops = [set |-> 0, flash |-> 0, feed |-> 0]
    /\ last = "new"
    /\ pc = "dis"
    /\ flag = TRUE /\ polled = TRUE /\ step_no = 0
    /\ saves = <<>> /\ by_step = <<>> /\ first_seen = 0
    /\ s = <<>> /\ exit_code = -1 /\ ncmd = 0 /\ nint = 0
    /\ hist = <<>> /\ cont = "" /\ dis = [ans |-> "", f |-> ""] /\ sweep = <<>>

DoDisassemble ==
    /\ pc = "dis"
    /\ dis' = Disassemble(vm)
    /\ pc' = "disdone"
    /\ UNCHANGED <<checked, vm, fault, flag, polled, step_no, saves, by_step,
                   first_seen, s, exit_code, ncmd, nint, nops, last, hist, cont,
                   sweep>>

NextDis == DoDisassemble

SpecDis == InitDis /\ [][NextDis]_vars

RECURSIVE Listed(_, _, _)
Listed(v, from, n) ==
    IF n = 0 THEN "" ELSE " " \o ToString(GetRom(v, from)) \o Listed(v, from + 1, n - 1)

\* the listing of the instruction at 0 with its operands, then of Halt
Listing(v) ==
    LET op == GetRom(v, 0)
        n == Fetched(op)
    IN "@0 " \o OpName[op + 1] \o Listed(v, 1, n) \o "\n"
       \o "@" \o ToString(n + 1) \o " Halt\n"
       \o "@" \o ToString(n + 2) \o " "

\* C8: disassembling one instruction, with the operands the interpreter
\* consumes, followed by HALT completes without a fault and lists the
\* instruction, its operands and Halt.
C8_DisassembleOne ==
    pc = "disdone" => (dis.f = "" /\ dis.ans = Listing(vm))

(***************************************************************************)
(* Properties of the session (Spec)                                        *)
(***************************************************************************)
AtIn(v) == TryGet(v, v.ip) = In /\ v.input = <<>>

\* C2 as stated: whenever run_to_input returns with running still true,
\* the word at the instruction pointer is IN and the input queue is empty,
\* whatever the handler did to the flag.
C2_ReturnsAtInput == (pc = "rti_ret" /\ vm.running) => AtIn(vm)

\* C2 amended: the same, for a return whose last poll of the flag read true.
C2_ReturnsAtInputUnlessCancelled ==
    (pc = "rti_ret" /\ vm.running /\ polled) => AtIn(vm)

\* run_to_input has returned from a run that executed instructions and then
\* reached an IN with nothing to read, an interrupt having come meanwhile
C2_Witness ==
    /\ pc = "rti_ret" /\ vm.running /\ polled /\ AtIn(vm)
    /\ cont = "cmd" /\ vm.output # <<>> /\ nint > 0

\* C3: at every prompt, each state S of saves has by_step[saves[S]] = S.
C3_SnapshotAgreement ==
    pc = "prompt" =>
        \A S \in DOMAIN saves :
            saves[S] \in DOMAIN by_step /\ by_step[saves[S]] = S

\* C4: at every prompt, by_step holds every state observed at a prompt so
\* far, each once.
C4_EveryObservedStateKept ==
    pc = "prompt" =>
        /\ \A S \in DOMAIN saves : \E k \in DOMAIN by_step : by_step[k] = S
        /\ \A j, k \in DOMAIN by_step : by_step[j] = by_step[k] => j = k

\* the text command r replays, after a load, what the text command q did
Replays(r, q) ==
    /\ r.viaLoad /\ q.step < r.step
    /\ q.pre = r.pre /\ q.line = r.line

\* C10 as stated: a text line entered after loading a snapshot A, equal to
\* a line entered earlier when the state was A, leads to the state recorded
\* after the earlier run, and first_seen is below step_no.
C10_ReplayDeterminism ==
    \A r, q \in hist.runs :
        Replays(r, q) => (r.post = q.post /\ r.fs < r.step)

\* C10 amended: the same, when neither of the two runs was ended by the
\* cancellation flag.
C10_ReplayDeterminismUncancelled ==
    \A r, q \in hist.runs :
        (Replays(r, q) /\ ~r.cut /\ ~q.cut) => (r.post = q.post /\ r.fs < r.step)

\* a line was replayed after a load, and the machine executed it both times
C10_Witness ==
    \E r, q \in hist.runs :
        /\ Replays(r, q) /\ ~r.cut /\ ~q.cut
        /\ r.post # r.pre /\ r.post.output # <<>>

(***************************************************************************)
(* Operands (SpecVm)                                                       *)
(***************************************************************************)
\* the opcodes whose first operand step always fetches
Operand1 == (0..(NumOps - 1)) \ {Halt, Ret, Nop}

\* the first operand word of the instruction at the instruction pointer,
\* None when no instruction with an operand is there
Operand(v) ==
    IF PeekOp(v) \in Operand1 /\ v.ip + 1 < Word16
    THEN TryGet(v, v.ip + 1) ELSE None

\* C13: an operand word greater than 32775 is a fatal fault, when it is
\* fetched as a value and when it is used as a destination: the step
\* aborts and the machine is as it was, in every reachable state, set
\* commands included.
C13_InvalidOperandFatal ==
    [][ (last' = "step" /\ fault = "" /\ Operand(vm) >= RegEnd)
            => (fault' # "" /\ vm' = vm) ]_vars

(***************************************************************************)
(* Properties of the commands of main (Spec)                               *)
(***************************************************************************)
\* the words of a load or diff line that are parsed as step indices
Indices(line) ==
    LET ws == Split(line, Ord[" "]) IN
    IF Branch(line) = "load" THEN {Parse(ws[2], UsizeMax)}
    ELSE IF Branch(line) = "diff" /\ Len(ws) >= 3
    THEN {Parse(ws[2], UsizeMax), Parse(ws[3], UsizeMax)}
    ELSE {None}

\* the line is a load or a diff whose indices parse, one of them not a key
\* of by_step
NamesUnknown(line) ==
    /\ None \notin Indices(line)
    /\ \E x \in Indices(line) : x \notin DOMAIN by_step

\* C11: a load or diff command naming a step index that is not a key of
\* by_step leaves the machine, step_no, saves and by_step as they were and
\* the REPL goes to its next prompt without aborting.
C11_UnknownIndexRecovered ==
    [][ \A line \in Lines :
            (NamesUnknown(line) /\ (Load(line) \/ Diff(line)))
                => (/\ pc' = "top" /\ fault' = "" /\ exit_code' = -1
                    /\ vm' = vm /\ step_no' = step_no
                    /\ saves' = saves /\ by_step' = by_step) ]_vars

(***************************************************************************)
(* Properties of run_to_input and the handler (Spec)                       *)
(***************************************************************************)
\* this step is an iteration of the loop of run_to_input: the flag was
\* loaded true and the instruction at the instruction pointer is decoded
Iterates == pc = "rti_loop" /\ vm.running /\ flag /\ nint' = nint

\* C12: when the interpreter decodes an instruction and the word stored at
\* the instruction pointer is outside 0..21, the process aborts with a fault
\* and the machine is as it was: no opcode effect is executed, whatever the
\* registers hold.
C12_UnknownOpFatal ==
    [][ (/\ Iterates
         /\ TryGet(vm, vm.ip) # None
         /\ TryGet(vm, vm.ip) \notin 0..(NumOps - 1))
            => (fault' # "" /\ pc' = "aborted" /\ vm' = vm) ]_vars

\* the word at the instruction pointer named a register that holds the
\* number of an opcode, and decoding it was fatal
C12_Witness ==
    /\ fault # "" /\ pc = "aborted"
    /\ TryGet(vm, vm.ip) \in RegBase..(RegEnd - 1)
    /\ TryGet(vm, TryGet(vm, vm.ip)) = Nop

\* C16: when the line read at the prompt is the quit command with its
\* trailing newline, the REPL loop ends and the program returns normally; the
\* line is not made the input of the machine and step_no is not advanced.
C16_QuitLeaves ==
    [][ (Quit(QuitNl) \/ Text(QuitNl))
            => (/\ pc' = "done" /\ exit_code' = 0
                /\ vm'.input = vm.input /\ step_no' = step_no) ]_vars

\* the step index a load line names, its newline set aside
Named(line) == Parse(Trim(Split(line, Ord[" "])[2]), UsizeMax)

\* C17: after a line "load K" read with its trailing newline, K a key of
\* by_step, the machine is equal to by_step[K], and step_no and by_step are
\* as they were.
C17_LoadRestores ==
    [][ \A line \in Lines :
            (/\ Branch(line) = "load" /\ line[Len(line)] = Ord["\n"]
             /\ Named(line) \in DOMAIN by_step
             /\ Load(line))
                => (/\ vm' = by_step[Named(line)]
                    /\ step_no' = step_no /\ by_step' = by_step) ]_vars

\* C15: the first interrupt only clears the flag and never terminates the
\* process, wherever the main thread is; the handler terminates the process
\* only on a second interrupt.
C15_TwoClickProtocol == exit_code = 1 => nint >= 2

\* the first char a line supplies to the machine
FirstChar(line) == SelectSeq(line, LAMBDA x : x # CR)[1]

\* the main thread is inside run_to_input
InRti == pc \in {"rti_enter", "rti_loop", "rti_leave"}

\* C19: run_to_input on a running machine whose current instruction is IN
\* and whose input queue is empty executes nothing and leaves the whole
\* machine as it was; once a line has been supplied, the iteration that
\* follows executes that IN and stores the first char of the line.
C19_SuspendedAtInput ==
    [][ /\ (InRti /\ vm.running /\ AtIn(vm))
            => (/\ vm' = vm /\ fault' = ""
                /\ pc' \in {"rti_enter", "rti_loop", "rti_leave", "rti_ret", "killed"}
                /\ ((pc = "rti_loop" /\ nint' = nint) => pc' = "rti_leave"))
        /\ (/\ Iterates /\ TryGet(vm, vm.ip) = In
             /\ hist.pend.live /\ vm.input # <<>>
             /\ vm.input = ToInput(hist.pend.line))
            => (/\ fault' = "" /\ vm'.ip = vm.ip + 2
                /\ TryGet(vm', TryGet(vm, vm.ip + 1)) = FirstChar(hist.pend.line)
                /\ Len(vm'.input) = Len(vm.input) - 1) ]_vars

\* the first run returned on the fresh machine, at IN, as it was; the run of
\* the line that followed stored its first char
C19_Witness ==
    \E r \in hist.runs :
        /\ r.pre \in {New(p) : p \in ReplPrograms}
        /\ r.pre.running /\ AtIn(r.pre)
        /\ ~r.cut
        /\ TryGet(r.post, TryGet(r.pre, r.pre.ip + 1)) = FirstChar(r.line)

\* C20: when the flag is cleared while run_to_input runs, the driver
\* executes no further instruction and returns with the machine between two
\* instructions; and an interrupt that cleared the flag is never overwritten
\* by the driver setting the flag back to true before a run has returned
\* because of it.
C20_CancellationCleanNeverLost ==
    [][ /\ (pc = "rti_loop" /\ ~flag /\ nint' = nint)
            => (vm' = vm /\ fault' = "" /\ pc' = "rti_leave")
        /\ ~(hist.intr /\ ~flag /\ flag') ]_vars

\* C21: input is consumed in the order it was enqueued.  A text command on
\* a running machine puts the chars of its line behind those still queued,
\* none of which is discarded, and IN takes the char at the front of the
\* queue (the last element of input, which is stored reversed).
C21_InputInOrder ==
    [][ /\ \A line \in Lines :
               (Text(line) /\ vm.running)
                   => vm'.input = ToInput(line) \o vm.input
        /\ (Iterates /\ TryGet(vm, vm.ip) = In /\ vm.input # <<>>)
               => (/\ fault' = ""
                   /\ vm'.input = SubSeq(vm.input, 1, Len(vm.input) - 1)
                   /\ TryGet(vm', TryGet(vm, vm.ip + 1))
                        = vm.input[Len(vm.input)]) ]_vars

(***************************************************************************)
(* Properties of the sweep (SpecSweep)                                     *)
(***************************************************************************)
\* C14: once an interrupt has cleared the flag while the sweep is running,
\* no further candidate is started: at the head of the for loop the sweep
\* returns to the REPL.
C14_SweepStopsWhenCancelled ==
    [][ (pc = "sw_next" /\ sweep.cancelled) => pc' # "sw_loop" ]_vars

\* no run of a candidate of SweepPrograms takes SweepFuel instructions
SweepFuel == 40

\* the machine v run until it halts, faults or is at IN with an empty input
\* queue, the flag staying true
RECURSIVE Settled(_, _)
Settled(v, fuel) ==
    IF fuel = 0 \/ ~v.running \/ PeekOp(v) = None \/ Suspends(v) THEN v
    ELSE IF Step(v, <<>>).f # "" THEN v
    ELSE Settled(Step(v, <<>>).v, fuel - 1)

\* candidate C is to be reported
Clean(C) ==
    ~Contains(Settled(Set(sweep.v_ref, 32775, C), SweepFuel).output, Miscalibration)

\* C18: the sweep reports a candidate if and only if the output of a clone
\* of the prepared base with the last register set to the candidate, run to
\* its suspension point or halt, does not contain the text, whatever the
\* timing of the interrupts; the prepared base and the working machine of the
\* REPL are not modified by the sweep.
C18_SweepReports ==
    pc = "sw_next" =>
        /\ sweep.found = {C \in 1..(sweep.i - 1) : Clean(C)}
        /\ sweep.v_ref = Prepared(vm).v
        /\ vm = TakeOutput(hist.obs)

(***************************************************************************)
(* MULT (SpecMult): one MULT instruction whose operands are two registers, *)
(* holding words the debugger's set command can put there.                 *)
(***************************************************************************)
MultOperands == {0, 1, 2, 255, 256, 257, 32767, 32768, 32769, 40000, 65535}

MultProgram == <<Mult, 32768, 32769, 32770, Halt>>

InitMult ==
    /\ checked \in BOOLEAN
    /\ vm \in {Set(Set(New(MultProgram), 32769, b), 32770, c) :
                  b, c \in MultOperands}
    /\ fault = ""
    /\ nops = [set |-> 0, flash |-> 0, feed |-> 0]
    /\ last = "new"
    /\ pc = "mult"
    /\ flag = TRUE /\ polled = TRUE /\ step_no = 0
    /\ saves = <<>> /\ by_step = <<>> /\ first_seen = 0
    /\ s = <<>> /\ exit_code = -1 /\ ncmd = 0 /\ nint = 0
    /\ hist = <<>> /\ cont = "" /\ dis = <<>> /\ sweep = <<>>

DoMult ==
    /\ pc = "mult" /\ last = "new"
    /\ Apply(Step(vm, <<>>), "step")
    /\ UNCHANGED nops

NextMult == DoMult

SpecMult == InitMult /\ [][NextMult]_vars

\* the product of b and c modulo 32768, computed from their residues: the
\* product of the residues is below 2^30
ProductMod(b, c) == ((b % Modulus) * (c % Modulus)) % Modulus

\* C22: for 16-bit operands b and c, 15-bit ones among them, the value MULT
\* stores is the mathematical product of b and c modulo 32768.
C22_MultExact ==
    (pc = "mult" /\ last = "step")
        => (/\ fault = ""
            /\ TryGet(vm, 32768) = ProductMod(TryGet(vm, 32769), TryGet(vm, 32770)))

\* MULT has run on operands whose product exceeds 16 bits
C22_Witness ==
    /\ pc = "mult" /\ last = "step" /\ fault = ""
    /\ TryGet(vm, 32769) = 32767 /\ TryGet(vm, 32770) = 32767
    /\ TryGet(vm, 32768) = 1

(***************************************************************************)
(* arg_count and step (SpecDis)                                            *)
(***************************************************************************)
\* step on the image made of the opcode word and n operand words
Alone(op, n) == Step(New(<<op>> \o [i \in 1..n |-> 1]), Str(<<"X", "\n">>))

\* the number of operand words step fetches when it executes op: the least
\* number of words after the opcode word with which no fetch runs off the
\* end of the image
Consumed(op) ==
    CHOOSE n \in 0..3 :
        /\ Alone(op, n).f \notin {Get(New(<<op>>), a).f : a \in 1..4}
        /\ \A k \in 0..(n - 1) :
               Alone(op, k).f \in {Get(New(<<op>>), a).f : a \in 1..4}

\* C23: for the opcode of the instruction, arg_count is the number of
\* operand words step fetches after the opcode word, so that the advance of
\* the disassembler lands where the interpreter fetches the next instruction
\* in sequence.
C23_ArgCountAgrees == ArgCount(PeekOp(vm)) = Consumed(PeekOp(vm))

====
